---- MODULE Spec2Model ----
(***************************************************************************)
(* Command Notes: the forest of commands and groups (types.ts), the tree   *)
(* algorithms of StorageService (storageService.ts), the tree provider     *)
(* that holds the live forest and persists it (commandTreeProvider.ts) and *)
(* the command handlers registered with the host (commands.ts,             *)
(* extension.ts).                                                          *)
(*                                                                         *)
(* Handlers are async functions started by the host and never awaited      *)
(* (extension.ts registers `(node) => { handler(node); }`), so each one    *)
(* runs synchronously up to its next await (an input prompt, a file        *)
(* dialog, a file read, the storage write) and may interleave there with   *)
(* any other handler.  Every action below is one such synchronous stretch. *)
(***************************************************************************)
EXTENDS Integers, Sequences, FiniteSets, TLC

VARIABLES
    data,      \* CommandTreeProvider.data: the live forest
    durable,   \* the forest held by globalState under STORAGE_KEY
    writes,    \* globalState.update calls issued and not yet completed (FIFO)
    inflight,  \* slot -> the handler invocation suspended at an await
    nextId,    \* the next id StorageService.generateId hands out
    started,   \* number of handler invocations started so far
    file,      \* the document exportData wrote last
    terminal,  \* CommandHandler.terminal: which terminal it holds (the n-th
               \* one created; 0: undefined) and whether that one has exited
    last       \* what the latest step did (observation of the step)

vars == <<data, durable, writes, inflight, nextId, started, file, terminal, last>>

(***************************************************************************)
(* Bounds                                                                  *)
(***************************************************************************)
MaxOps == 2        \* handler invocations per behaviour
MaxInFlight == 2   \* handler invocations suspended at the same time
MaxNew == 1        \* nodes created by addCommand / addGroup per behaviour

(***************************************************************************)
(* types.ts                                                                *)
(***************************************************************************)
\* A JavaScript property that is not there, and one that holds `undefined`.
NoField == "<absent>"
Undef == "<undefined>"

\* Both variants share one record shape: a command item carries no children
\* (<<>>), a group carries no command / description (NoField).
CommandItem(id, label, command, description) ==
    [id |-> id, type |-> "command", label |-> label, command |-> command,
     description |-> description, children |-> <<>>]

CommandGroup(id, label, children) ==
    [id |-> id, type |-> "group", label |-> label, command |-> NoField,
     description |-> NoField, children |-> children]

\* JavaScript null where a TreeNode is expected.
Null ==
    [id |-> 0, type |-> "null", label |-> NoField, command |-> NoField,
     description |-> NoField, children |-> <<>>]

isCommandItem(node) == node.type = "command"

isCommandGroup(node) == node.type = "group"

(***************************************************************************)
(* storageService.ts: the tree algorithms                                  *)
(***************************************************************************)
RECURSIVE findNodeById(_, _)
findNodeById(nodes, id) ==
    IF nodes = <<>> THEN Null
    ELSE LET node == Head(nodes)
         IN  IF node.id = id THEN node
             ELSE LET found == IF isCommandGroup(node)
                               THEN findNodeById(node.children, id)
                               ELSE Null
                  IN  IF found # Null THEN found
                      ELSE findNodeById(Tail(nodes), id)

\* Mutant: the recursion hands down the parent it was given, not the group
\* it descends into.
RECURSIVE findParentKeepsParent(_, _, _)
findParentKeepsParent(nodes, targetId, parent) ==
    IF nodes = <<>> THEN Null
    ELSE LET node == Head(nodes)
         IN  IF node.id = targetId THEN parent
             ELSE LET found == IF isCommandGroup(node)
                               THEN findParentKeepsParent(node.children, targetId, parent)
                               ELSE Null
                  IN  IF found # Null THEN found
                      ELSE findParentKeepsParent(Tail(nodes), targetId, parent)

RECURSIVE findParent(_, _, _)
findParent(nodes, targetId, parent) ==
    IF nodes = <<>> THEN Null
    ELSE LET node == Head(nodes)
         IN  IF node.id = targetId THEN parent
             ELSE LET found == IF isCommandGroup(node)
                               THEN findParent(node.children, targetId, node)
                               ELSE Null
                  IN  IF found # Null THEN found
                      ELSE findParent(Tail(nodes), targetId, parent)

\* Mutant: the filter is applied to the given sequence only, groups are not
\* descended into.
RECURSIVE deleteNodeShallow(_, _)
deleteNodeShallow(nodes, id) ==
    IF nodes = <<>> THEN <<>>
    ELSE LET node == Head(nodes)
         IN  IF node.id = id THEN deleteNodeShallow(Tail(nodes), id)
             ELSE <<node>> \o deleteNodeShallow(Tail(nodes), id)

\* nodes.filter(...): a matching node is dropped with its subtree, a group
\* that stays gets its children filtered the same way.
RECURSIVE deleteNode(_, _)
deleteNode(nodes, id) ==
    IF nodes = <<>> THEN <<>>
    ELSE LET node == Head(nodes)
             rest == deleteNode(Tail(nodes), id)
         IN  IF node.id = id THEN rest
             ELSE IF isCommandGroup(node)
                  THEN <<[node EXCEPT !.children = deleteNode(node.children, id)]>> \o rest
                  ELSE <<node>> \o rest

\* Mutant: the merged object is built from the patch, the id and the
\* children; what else the node held is not carried over.
mergeFieldsPatchOnly(node, updates) ==
    [f \in DOMAIN node |->
        IF f \in DOMAIN updates THEN updates[f]
        ELSE IF f \in {"id", "children"} THEN node[f] ELSE NoField]

\* { ...node, ...updates }: a patch maps each field it names to its value.
\* A field the patch does not name keeps its value.
mergeFields(node, updates) ==
    [f \in DOMAIN node |-> IF f \in DOMAIN updates THEN updates[f] ELSE node[f]]

\* Mutant: the patch also lands on every node that follows the match in the
\* same sequence.
RECURSIVE updateNodeAndFollowing(_, _, _)
updateNodeAndFollowing(nodes, id, updates) ==
    IF nodes = <<>> THEN <<>>
    ELSE LET node == Head(nodes)
         IN  IF node.id = id
             THEN <<mergeFields(node, updates)>>
                  \o [i \in 1..(Len(nodes) - 1) |-> mergeFields(nodes[i + 1], updates)]
             ELSE IF isCommandGroup(node)
                  THEN <<[node EXCEPT !.children =
                              updateNodeAndFollowing(node.children, id, updates)]>>
                       \o updateNodeAndFollowing(Tail(nodes), id, updates)
                  ELSE <<node>> \o updateNodeAndFollowing(Tail(nodes), id, updates)

RECURSIVE updateNode(_, _, _)
updateNode(nodes, id, updates) ==
    IF nodes = <<>> THEN <<>>
    ELSE LET node == Head(nodes)
             rest == updateNode(Tail(nodes), id, updates)
         IN  IF node.id = id THEN <<mergeFields(node, updates)>> \o rest
             ELSE IF isCommandGroup(node)
                  THEN <<[node EXCEPT !.children = updateNode(node.children, id, updates)]>> \o rest
                  ELSE <<node>> \o rest

RECURSIVE insertIntoGroup(_, _, _)
insertIntoGroup(nodes, groupId, nodeToInsert) ==
    IF nodes = <<>> THEN <<>>
    ELSE LET node == Head(nodes)
             rest == insertIntoGroup(Tail(nodes), groupId, nodeToInsert)
         IN  IF node.id = groupId /\ isCommandGroup(node)
             THEN <<[node EXCEPT !.children = Append(node.children, nodeToInsert)]>> \o rest
             ELSE IF isCommandGroup(node)
                  THEN <<[node EXCEPT !.children =
                              insertIntoGroup(node.children, groupId, nodeToInsert)]>> \o rest
                  ELSE <<node>> \o rest

RECURSIVE insertNearNode(_, _, _, _)
insertNearNode(nodes, targetId, nodeToInsert, position) ==
    IF nodes = <<>> THEN <<>>
    ELSE LET node == Head(nodes)
             rest == insertNearNode(Tail(nodes), targetId, nodeToInsert, position)
         IN  IF node.id = targetId
             THEN (IF position = "before" THEN <<nodeToInsert, node>>
                                          ELSE <<node, nodeToInsert>>) \o rest
             ELSE IF isCommandGroup(node)
                  THEN <<[node EXCEPT !.children =
                              insertNearNode(node.children, targetId, nodeToInsert, position)]>>
                       \o rest
                  ELSE <<node>> \o rest

\* Mutant: the source is inserted without being removed first.
moveNodeNoDetach(nodes, sourceId, targetId, position) ==
    LET sourceNode == findNodeById(nodes, sourceId)
    IN  IF sourceNode = Null THEN nodes
        ELSE IF position = "inside"
             THEN insertIntoGroup(nodes, targetId, sourceNode)
             ELSE insertNearNode(nodes, targetId, sourceNode, position)

\* Mutant: "after" a group is taken as "inside" it.
moveNodeAfterIsInside(nodes, sourceId, targetId, position) ==
    LET sourceNode == findNodeById(nodes, sourceId)
        newNodes == deleteNode(nodes, sourceId)
        target == findNodeById(newNodes, targetId)
    IN  IF sourceNode = Null THEN nodes
        ELSE IF position = "inside" \/ (position = "after" /\ isCommandGroup(target))
             THEN insertIntoGroup(newNodes, targetId, sourceNode)
             ELSE insertNearNode(newNodes, targetId, sourceNode, position)

\* Mutant: moveNode without the early return for a source that is not found.
moveNodeUnchecked(nodes, sourceId, targetId, position) ==
    LET sourceNode == findNodeById(nodes, sourceId)
        newNodes == deleteNode(nodes, sourceId)
    IN  IF position = "inside"
        THEN insertIntoGroup(newNodes, targetId, sourceNode)
        ELSE insertNearNode(newNodes, targetId, sourceNode, position)

moveNode(nodes, sourceId, targetId, position) ==
    LET sourceNode == findNodeById(nodes, sourceId)
        newNodes == deleteNode(nodes, sourceId)
    IN  IF sourceNode = Null THEN nodes
        ELSE IF position = "inside"
             THEN insertIntoGroup(newNodes, targetId, sourceNode)
             ELSE insertNearNode(newNodes, targetId, sourceNode, position)

(***************************************************************************)
(* Reading a forest (used to state properties and to draw handler inputs)  *)
(***************************************************************************)
RECURSIVE AllNodes(_)
AllNodes(nodes) ==
    IF nodes = <<>> THEN {}
    ELSE {Head(nodes)} \cup AllNodes(Head(nodes).children) \cup AllNodes(Tail(nodes))

\* The ids of a forest, one entry per occurrence, in pre-order.
RECURSIVE IdList(_)
IdList(nodes) ==
    IF nodes = <<>> THEN <<>>
    ELSE <<Head(nodes).id>> \o IdList(Head(nodes).children) \o IdList(Tail(nodes))

IdSet(nodes) == {IdList(nodes)[i] : i \in 1..Len(IdList(nodes))}

UniqueIds(nodes) == Cardinality(IdSet(nodes)) = Len(IdList(nodes))

\* The ids of the immediate members of a sequence, in order.
ChildIds(nodes) == [i \in 1..Len(nodes) |-> nodes[i].id]

\* The sequence that holds the node `id` directly: 0 names the root sequence.
Root == Null.id
ParentIdOf(nodes, id) ==
    IF \E i \in 1..Len(nodes) : nodes[i].id = id THEN Root
    ELSE LET holders == {g \in AllNodes(nodes) :
                            \E i \in 1..Len(g.children) : g.children[i].id = id}
         IN  IF holders = {} THEN -1 ELSE (CHOOSE g \in holders : TRUE).id

\* The members of the sequence named by `pid` (Root or a group id).
MembersOf(nodes, pid) ==
    IF pid = Root THEN nodes ELSE findNodeById(nodes, pid).children

\* The ids of a node and of everything below it.
SubtreeIds(node) == {node.id} \cup IdSet(node.children)

\* A sequence of ids with every id of `gone` taken out.
RECURSIVE Without(_, _)
Without(ids, gone) ==
    IF ids = <<>> THEN <<>>
    ELSE IF Head(ids) \in gone THEN Without(Tail(ids), gone)
         ELSE <<Head(ids)>> \o Without(Tail(ids), gone)

(***************************************************************************)
(* commandTreeProvider.ts: the mutations of the live forest                *)
(***************************************************************************)
RECURSIVE addToGroup(_, _, _)
addToGroup(nodes, groupId, nodeToAdd) ==
    IF nodes = <<>> THEN <<>>
    ELSE LET node == Head(nodes)
             rest == addToGroup(Tail(nodes), groupId, nodeToAdd)
         IN  IF node.id = groupId /\ isCommandGroup(node)
             THEN <<[node EXCEPT !.children = Append(node.children, nodeToAdd)]>> \o rest
             ELSE IF isCommandGroup(node)
                  THEN <<[node EXCEPT !.children =
                              addToGroup(node.children, groupId, nodeToAdd)]>> \o rest
                  ELSE <<node>> \o rest

\* `parentId` is a string id or undefined; 0 stands for undefined.
NoParent == Null.id

\* The forest addCommand / addGroup leave in this.data.
addNode(nodes, newNode, parentId) ==
    IF parentId # NoParent THEN addToGroup(nodes, parentId, newNode)
    ELSE Append(nodes, newNode)

\* Mutant: a drop on the empty area pushes the node without detaching it.
dropNodeNoDetach(nodes, sourceNode, target) ==
    IF target = Null THEN Append(nodes, sourceNode)
    ELSE IF isCommandGroup(target)
         THEN moveNode(nodes, sourceNode.id, target.id, "inside")
         ELSE moveNode(nodes, sourceNode.id, target.id, "after")

\* The forest handleDrop leaves in this.data; `target` is Null for a drop on
\* the empty area of the view.
dropNode(nodes, sourceNode, target) ==
    IF target = Null THEN Append(deleteNode(nodes, sourceNode.id), sourceNode)
    ELSE IF isCommandGroup(target)
         THEN moveNode(nodes, sourceNode.id, target.id, "inside")
         ELSE moveNode(nodes, sourceNode.id, target.id, "after")

\* The group object findParent returned is changed in place: its children
\* become `children`, everything else stays.
RECURSIVE setChildren(_, _, _)
setChildren(nodes, groupId, children) ==
    IF nodes = <<>> THEN <<>>
    ELSE LET node == Head(nodes)
             rest == setChildren(Tail(nodes), groupId, children)
         IN  IF node.id = groupId /\ isCommandGroup(node)
             THEN <<[node EXCEPT !.children = children]>> \o rest
             ELSE IF isCommandGroup(node)
                  THEN <<[node EXCEPT !.children =
                              setChildren(node.children, groupId, children)]>> \o rest
                  ELSE <<node>> \o rest

\* siblings.findIndex(node => node.id === id): 0 stands for -1, i for i - 1.
findIndex(siblings, id) ==
    IF \E i \in 1..Len(siblings) : siblings[i].id = id
    THEN CHOOSE i \in 1..Len(siblings) :
             /\ siblings[i].id = id
             /\ \A j \in 1..(i - 1) : siblings[j].id # id
    ELSE 0

\* Mutant: the first assignment of a swap without the second.
swapOverwrite(siblings, i, j) ==
    [k \in 1..Len(siblings) |-> IF k = i THEN siblings[j] ELSE siblings[k]]

swap(siblings, i, j) ==
    [k \in 1..Len(siblings) |->
        IF k = i THEN siblings[j] ELSE IF k = j THEN siblings[i] ELSE siblings[k]]

\* Mutant: moveUp looks for the node among the root members only.
moveUpRootOnly(nodes, id) ==
    LET index == findIndex(nodes, id)
    IN  IF index > 1
        THEN [swapped |-> TRUE, nodes |-> swap(nodes, index - 1, index)]
        ELSE [swapped |-> FALSE, nodes |-> nodes]

\* moveUp / moveDown: [swapped, nodes], `swapped` telling whether the branch
\* that swaps, saves and refreshes was taken.
moveUp(nodes, id) ==
    LET parent == findParent(nodes, id, Null)
        siblings == IF parent # Null THEN parent.children ELSE nodes
        index == findIndex(siblings, id)
    IN  IF index > 1
        THEN [swapped |-> TRUE,
              nodes |-> IF parent # Null
                        THEN setChildren(nodes, parent.id, swap(siblings, index - 1, index))
                        ELSE swap(siblings, index - 1, index)]
        ELSE [swapped |-> FALSE, nodes |-> nodes]

moveDown(nodes, id) ==
    LET parent == findParent(nodes, id, Null)
        siblings == IF parent # Null THEN parent.children ELSE nodes
        index == findIndex(siblings, id)
    IN  IF index >= 1 /\ index < Len(siblings)
        THEN [swapped |-> TRUE,
              nodes |-> IF parent # Null
                        THEN setChildren(nodes, parent.id, swap(siblings, index, index + 1))
                        ELSE swap(siblings, index, index + 1)]
        ELSE [swapped |-> FALSE, nodes |-> nodes]

(***************************************************************************)
(* The state of the extension                                              *)
(***************************************************************************)
Slots == 1..MaxInFlight

\* A slot with no handler suspended in it.
Idle == [op |-> "idle", pc |-> "idle", id |-> 0, a1 |-> NoField, a2 |-> NoField,
         saves |-> 0, refreshes |-> 0]

\* A handler invocation suspended at `pc`; `id` is the id it captured from its
\* argument, a1 / a2 the prompt answers it holds so far.
Handler(op, pc, id, a1, a2, saves) ==
    [op |-> op, pc |-> pc, id |-> id, a1 |-> a1, a2 |-> a2,
     saves |-> saves, refreshes |-> 0]

HasFree == \E h \in Slots : inflight[h] = Idle

FreeSlot == CHOOSE h \in Slots : inflight[h] = Idle /\ \A k \in 1..(h - 1) : inflight[k] # Idle

Quiet == \A h \in Slots : inflight[h] = Idle

\* What one step did: the handler and its inputs, the forests before the step,
\* whether it called storageService.save, whether it fired onDidChangeTreeData,
\* the message it showed ("unhandled": the handler's promise rejected and
\* nothing caught it), and, when the step ended an invocation, the saves and
\* refreshes of that invocation (fin = TRUE).
Obs(act, op, id, tgt, arg, saved, refresh, msg, fin, saves, refreshes) ==
    [act |-> act, op |-> op, id |-> id, tgt |-> tgt, arg |-> arg,
     before |-> data, durBefore |-> durable,
     saved |-> saved, refresh |-> refresh, msg |-> msg,
     fin |-> fin, saves |-> saves, refreshes |-> refreshes]

\* What a showInputBox promise resolves to: undefined when the box is
\* dismissed, else the text (possibly empty).
Answers == {Undef, "", "x"}

\* JavaScript's !text for such an answer.
Falsy(ans) == ans = Undef \/ ans = ""

\* Forests found in storage at activation (load() gives [] when nothing is
\* stored); ids 1..3 were generated in earlier sessions.
StoredForests ==
    { <<>>,
      << CommandGroup(1, "a", << CommandItem(2, "a", "a", "d") >>),
         CommandItem(3, "a", "a", Undef) >> }

\* generateId() joins the clock and a random string: an id no stored node has.
FirstNewId ==
    LET used == UNION {IdSet(f) : f \in StoredForests}
    IN  (CHOOSE m \in used : \A k \in used : k <= m) + 1

\* No document has been exported yet (`text`: the tokens of the file's text,
\* `exported`: the forest getData() returned when the text was made); the
\* handler's `terminal` field is declared without an initializer.
NoFile == [text |-> <<>>, exported |-> <<>>]

NoTerminal == [held |-> Null.id, exited |-> FALSE]

\* initialize(): this.data = await load(), then refresh().
Init ==
    /\ durable \in StoredForests
    /\ data = durable
    /\ writes = <<>>
    /\ inflight = [h \in Slots |-> Idle]
    /\ nextId = FirstNewId
    /\ started = 0
    /\ file = NoFile
    /\ terminal = NoTerminal
    /\ last = [act |-> "initialize", op |-> "initialize", id |-> 0, tgt |-> 0,
               arg |-> NoField, before |-> durable, durBefore |-> durable,
               saved |-> FALSE, refresh |-> TRUE, msg |-> "none",
               fin |-> TRUE, saves |-> 0, refreshes |-> 1]

\* Tree elements a handler can be invoked on, and `undefined` (the view's
\* title buttons, a drop on the empty area).
Elements == AllNodes(data)

ElementsOrNone == Elements \cup {Null}

\* Mutant: save() is handed the forest as it was before the mutation.
SaveStale(h) == writes' = Append(writes, [h |-> h, snap |-> data])

\* storageService.save(this.data): globalState.update is called with the
\* forest as it is at the call, and the caller suspends on it.
Save(h) == writes' = Append(writes, [h |-> h, snap |-> data'])

\* Mutant: save() is skipped when the mutation left the forest as it was,
\* and the refresh is fired straight away.
invokeProviderSkipNoop(h, act, op, id, tgt, arg, newData) ==
    /\ data' = newData
    /\ IF newData = data
       THEN /\ writes' = writes
            /\ inflight' = [inflight EXCEPT ![h] = Idle]
            /\ last' = Obs(act, op, id, tgt, arg, FALSE, TRUE, "none", TRUE, 0, 1)
       ELSE /\ Save(h)
            /\ inflight' = [inflight EXCEPT ![h] =
                               Handler(op, "saving", id, NoField, NoField, 1)]
            /\ last' = Obs(act, op, id, tgt, arg, TRUE, FALSE, "none", FALSE, 0, 0)

\* The shape shared by the provider's addCommand, addGroup, deleteNode,
\* updateNode, importData and handleDrop: assign this.data, call save and
\* suspend on it; the refresh is in the continuation (SaveOk).
invokeProvider(h, act, op, id, tgt, arg, newData) ==
    /\ data' = newData
    /\ Save(h)
    /\ inflight' = [inflight EXCEPT ![h] =
                       Handler(op, "saving", id, NoField, NoField, 1)]
    /\ last' = Obs(act, op, id, tgt, arg, TRUE, FALSE, "none", FALSE, 0, 0)

\* A handler returns (or shows a warning and returns) without having called
\* the provider.
Return(h, act, op, id, arg, msg) ==
    /\ inflight' = [inflight EXCEPT ![h] = Idle]
    /\ last' = Obs(act, op, id, 0, arg, FALSE, FALSE, msg, TRUE, 0, 0)
    /\ UNCHANGED <<data, durable, writes, nextId>>

\* A handler suspends at a prompt. The host shows one input box or file
\* dialog at a time: a new one is shown only once the open one has resolved.
Prompt(h, act, op, pc, id, a1, a2, arg) ==
    /\ \A k \in Slots \ {h} : inflight[k].pc \in {"idle", "saving"}
    /\ inflight' = [inflight EXCEPT ![h] = Handler(op, pc, id, a1, a2, 0)]
    /\ last' = Obs(act, op, id, 0, arg, FALSE, FALSE, "none", FALSE, 0, 0)
    /\ UNCHANGED <<data, durable, writes, nextId>>

CanStart == started < MaxOps /\ HasFree

CanCreate == nextId < FirstNewId + MaxNew

(***************************************************************************)
(* commands.ts: addCommand / addGroup                                      *)
(***************************************************************************)
\* The parent an add is aimed at: a command item stands for its group
\* (getParent; null, the root, becomes undefined).
resolveParent(parentNode) ==
    IF parentNode # Null /\ isCommandItem(parentNode)
    THEN findParent(data, parentNode.id, Null)
    ELSE parentNode

StartAdd(op, parentNode) ==
    /\ CanStart
    /\ started' = started + 1
    /\ UNCHANGED <<file, terminal>>
    /\ LET h == FreeSlot
           parent == resolveParent(parentNode)
       IN  IF parent # Null /\ ~isCommandGroup(parent)
           THEN Return(h, "start", op, parent.id, NoField, "warning")
           ELSE Prompt(h, "start", op, "prompt", parent.id, NoField, NoField, NoField)

StartAddCommand == \E parentNode \in ElementsOrNone : StartAdd("addCommand", parentNode)

StartAddGroup == \E parentNode \in ElementsOrNone : StartAdd("addGroup", parentNode)

\* The prompt of addCommand resolves: the command text doubles as the label.
AnswerAddCommand(h, ans) ==
    /\ inflight[h].op = "addCommand" /\ inflight[h].pc = "prompt"
    /\ UNCHANGED <<started, file, terminal>>
    /\ IF Falsy(ans)
       THEN Return(h, "answer", "addCommand", inflight[h].id, ans, "none")
       ELSE /\ CanCreate
            /\ nextId' = nextId + 1
            /\ UNCHANGED durable
            /\ invokeProvider(h, "answer", "addCommand", inflight[h].id, 0, ans,
                   addNode(data, CommandItem(nextId, ans, ans, Undef), inflight[h].id))

AnswerAddGroup(h, ans) ==
    /\ inflight[h].op = "addGroup" /\ inflight[h].pc = "prompt"
    /\ UNCHANGED <<started, file, terminal>>
    /\ IF Falsy(ans)
       THEN Return(h, "answer", "addGroup", inflight[h].id, ans, "none")
       ELSE /\ CanCreate
            /\ nextId' = nextId + 1
            /\ UNCHANGED durable
            /\ invokeProvider(h, "answer", "addGroup", inflight[h].id, 0, ans,
                   addNode(data, CommandGroup(nextId, ans, <<>>), inflight[h].id))

(***************************************************************************)
(* commands.ts: editCommand / renameGroup                                  *)
(***************************************************************************)
StartEditCommand ==
    \E node \in Elements :
        /\ CanStart
        /\ started' = started + 1
        /\ UNCHANGED <<file, terminal>>
        /\ IF ~isCommandItem(node)
           THEN Return(FreeSlot, "start", "editCommand", node.id, NoField, "warning")
           ELSE Prompt(FreeSlot, "start", "editCommand", "label", node.id,
                       NoField, NoField, NoField)

AnswerEditLabel(h, ans) ==
    /\ inflight[h].op = "editCommand" /\ inflight[h].pc = "label"
    /\ UNCHANGED <<started, file, terminal>>
    /\ IF Falsy(ans)
       THEN Return(h, "answer", "editCommand", inflight[h].id, ans, "none")
       ELSE Prompt(h, "answer", "editCommand", "command", inflight[h].id, ans, NoField, ans)

AnswerEditCommand(h, ans) ==
    /\ inflight[h].op = "editCommand" /\ inflight[h].pc = "command"
    /\ UNCHANGED <<started, file, terminal>>
    /\ IF Falsy(ans)
       THEN Return(h, "answer", "editCommand", inflight[h].id, ans, "none")
       ELSE Prompt(h, "answer", "editCommand", "description", inflight[h].id,
                   inflight[h].a1, ans, ans)

\* The patch editCommand hands to updateNode: whatever the description prompt
\* resolved to goes into it, undefined included.
editPatch(label, command, description) ==
    [label |-> label, command |-> command, description |-> description]

AnswerEditDescription(h, ans) ==
    /\ inflight[h].op = "editCommand" /\ inflight[h].pc = "description"
    /\ UNCHANGED <<started, durable, nextId, file, terminal>>
    /\ invokeProvider(h, "answer", "editCommand", inflight[h].id, 0, ans,
           updateNode(data, inflight[h].id,
                      editPatch(inflight[h].a1, inflight[h].a2, ans)))

StartRenameGroup ==
    \E node \in Elements :
        /\ CanStart
        /\ started' = started + 1
        /\ UNCHANGED <<file, terminal>>
        /\ IF ~isCommandGroup(node)
           THEN Return(FreeSlot, "start", "renameGroup", node.id, NoField, "warning")
           ELSE Prompt(FreeSlot, "start", "renameGroup", "prompt", node.id,
                       NoField, NoField, NoField)

AnswerRenameGroup(h, ans) ==
    /\ inflight[h].op = "renameGroup" /\ inflight[h].pc = "prompt"
    /\ UNCHANGED <<started, file, terminal>>
    /\ IF Falsy(ans)
       THEN Return(h, "answer", "renameGroup", inflight[h].id, ans, "none")
       ELSE /\ UNCHANGED <<durable, nextId>>
            /\ invokeProvider(h, "answer", "renameGroup", inflight[h].id, 0, ans,
                   updateNode(data, inflight[h].id, [label |-> ans]))

(***************************************************************************)
(* commands.ts: deleteNode / moveUp / moveDown                             *)
(***************************************************************************)
StartDeleteNode ==
    \E node \in Elements :
        /\ CanStart
        /\ started' = started + 1
        /\ UNCHANGED <<file, terminal>>
        /\ UNCHANGED <<durable, nextId>>
        /\ invokeProvider(FreeSlot, "start", "deleteNode", node.id, 0, NoField,
                          deleteNode(data, node.id))

\* Mutant: the save and the refresh are outside the `if`.
StartMoveAlwaysSaves(op, node, moved) ==
    /\ CanStart
    /\ started' = started + 1
    /\ UNCHANGED <<file, terminal, durable, nextId>>
    /\ data' = moved.nodes
    /\ Save(FreeSlot)
    /\ inflight' = [inflight EXCEPT ![FreeSlot] =
                       Handler(op, "saving", node.id, NoField, NoField, 1)]
    /\ last' = Obs("start", op, node.id, 0, NoField, TRUE, FALSE, "none", FALSE, 0, 0)

\* The view is refreshed only when a save has completed: until then it still
\* offers the nodes the latest step took out of the forest.
StaleElements ==
    IF last.refresh THEN {}
    ELSE {node \in AllNodes(last.before) : node.id \notin IdSet(data)}

\* moveUp / moveDown save and refresh in the branch that swaps, and return
\* at once otherwise.
StartMove(op, node, moved) ==
    /\ CanStart
    /\ started' = started + 1
    /\ UNCHANGED <<file, terminal>>
    /\ IF moved.swapped
       THEN /\ data' = moved.nodes
            /\ Save(FreeSlot)
            /\ inflight' = [inflight EXCEPT ![FreeSlot] =
                               Handler(op, "saving", node.id, NoField, NoField, 1)]
            /\ last' = Obs("start", op, node.id, 0, NoField, TRUE, FALSE, "none", FALSE, 0, 0)
            /\ UNCHANGED <<durable, nextId>>
       ELSE Return(FreeSlot, "start", op, node.id, NoField, "none")

StartMoveUp ==
    \E node \in Elements \cup StaleElements :
        StartMove("moveUp", node, moveUp(data, node.id))

StartMoveDown ==
    \E node \in Elements \cup StaleElements :
        StartMove("moveDown", node, moveDown(data, node.id))

(***************************************************************************)
(* commandTreeProvider.ts: handleDrop                                      *)
(***************************************************************************)
\* The host calls handleDrop with the transfer item handleDrag attached (the
\* dragged element, never an empty list) and the element under the pointer,
\* which may be the dragged element itself or one below it.
HandleDrop ==
    \E sourceNode \in Elements, target \in ElementsOrNone :
        /\ CanStart
        /\ started' = started + 1
        /\ UNCHANGED <<file, terminal>>
        /\ UNCHANGED <<durable, nextId>>
        /\ invokeProvider(FreeSlot, "start", "handleDrop", sourceNode.id, target.id,
                          NoField, dropNode(data, sourceNode, target))

(***************************************************************************)
(* commands.ts: importData                                                 *)
(***************************************************************************)
\* A JavaScript value found under `commands`: `truthy` is what !v tests,
\* `isArray` what Array.isArray tests, `items` the forest the provider would
\* hold were the value assigned to this.data.
JsValue(truthy, isArray, items) == [truthy |-> truthy, isArray |-> isArray, items |-> items]

\* What reading and parsing the picked file gives: `read` "rejects" (readFile
\* fails), "garbage" (JSON.parse throws), "null" (the document is the JSON
\* null, so reading .commands throws) or "object".
ImportDocs ==
    { [read |-> "rejects", commands |-> JsValue(FALSE, FALSE, <<>>)],
      [read |-> "garbage", commands |-> JsValue(FALSE, FALSE, <<>>)],
      [read |-> "null",    commands |-> JsValue(FALSE, FALSE, <<>>)],
      \* {}: no `commands`
      [read |-> "object",  commands |-> JsValue(FALSE, FALSE, <<>>)],
      \* {"commands": "not-an-array"}
      [read |-> "object",  commands |-> JsValue(TRUE, FALSE, <<>>)],
      \* {"commands": []}
      [read |-> "object",  commands |-> JsValue(TRUE, TRUE, <<>>)],
      \* {"commands": [{"id": "2", "type": "command", "label": "b", "command": "b"}]}
      [read |-> "object",  commands |->
          JsValue(TRUE, TRUE, << CommandItem(2, "b", "b", NoField) >>)] }

\* Mutant: only the presence of `commands` is tested.
rejectsCommandsPresenceOnly(commands) == ~commands.truthy

\* !jsonContent.commands || !Array.isArray(jsonContent.commands)
rejectsCommands(commands) == ~commands.truthy \/ ~commands.isArray

\* A label for the document in `last.arg`.
DocKind(doc) ==
    IF doc.read # "object" THEN doc.read
    ELSE IF ~doc.commands.truthy THEN "missing"
    ELSE IF ~doc.commands.isArray THEN "nonArray"
    ELSE "array"

StartImportData ==
    /\ CanStart
    /\ started' = started + 1
    /\ UNCHANGED <<file, terminal>>
    /\ Prompt(FreeSlot, "start", "importData", "dialog", 0, NoField, NoField, NoField)

\* showOpenDialog resolves: nothing picked, or a file, which readFile reads.
AnswerOpenDialog(h, picked) ==
    /\ inflight[h].op = "importData" /\ inflight[h].pc = "dialog"
    /\ UNCHANGED <<started, file, terminal>>
    /\ IF ~picked
       THEN Return(h, "answer", "importData", 0, Undef, "none")
       ELSE Prompt(h, "answer", "importData", "reading", 0, NoField, NoField, "picked")

\* readFile settles; the rest of the try block up to the save runs.
ReadDone(h, doc) ==
    /\ inflight[h].op = "importData" /\ inflight[h].pc = "reading"
    /\ UNCHANGED <<started, file, terminal>>
    /\ IF doc.read # "object"
       THEN Return(h, "read", "importData", 0, DocKind(doc), "error")
       ELSE IF rejectsCommands(doc.commands)
            THEN Return(h, "read", "importData", 0, DocKind(doc), "error")
            ELSE /\ UNCHANGED <<durable, nextId>>
                 /\ invokeProvider(h, "read", "importData", 0, 0, DocKind(doc),
                                   doc.commands.items)

(***************************************************************************)
(* The storage write settles                                               *)
(***************************************************************************)
\* The message a handler shows after its awaited provider call returned.
successMessage(op) ==
    IF op \in {"handleDrop", "moveUp", "moveDown"} THEN "none" ELSE "info"

\* What becomes of a rejected save: importData awaits the provider inside its
\* try block, the other handlers have none and their promise is dropped by
\* the registration callback.
failureMessage(op) ==
    IF op = "importData" THEN "error" ELSE "unhandled"

\* The oldest pending write completes; its caller resumes and refreshes.
SaveOk(h) ==
    /\ writes # <<>> /\ Head(writes).h = h
    /\ durable' = Head(writes).snap
    /\ writes' = Tail(writes)
    /\ inflight' = [inflight EXCEPT ![h] = Idle]
    /\ last' = Obs("saveOk", inflight[h].op, inflight[h].id, 0, NoField, FALSE, TRUE,
                   successMessage(inflight[h].op), TRUE,
                   inflight[h].saves, inflight[h].refreshes + 1)
    /\ UNCHANGED <<data, nextId, started, file, terminal>>

\* The oldest pending write is rejected: save() throws into its caller.
SaveFail(h) ==
    /\ writes # <<>> /\ Head(writes).h = h
    /\ writes' = Tail(writes)
    /\ inflight' = [inflight EXCEPT ![h] = Idle]
    /\ last' = Obs("saveFail", inflight[h].op, inflight[h].id, 0, NoField, FALSE, FALSE,
                   failureMessage(inflight[h].op), TRUE,
                   inflight[h].saves, inflight[h].refreshes)
    /\ UNCHANGED <<data, durable, nextId, started, file, terminal>>

(***************************************************************************)
(* The extension: what the host can make it do                             *)
(***************************************************************************)
Next ==
    \/ StartAddCommand
    \/ StartAddGroup
    \/ \E h \in Slots, ans \in Answers : AnswerAddCommand(h, ans)
    \/ \E h \in Slots, ans \in Answers : AnswerAddGroup(h, ans)
    \/ StartEditCommand
    \/ \E h \in Slots, ans \in Answers : AnswerEditLabel(h, ans)
    \/ \E h \in Slots, ans \in Answers : AnswerEditCommand(h, ans)
    \/ \E h \in Slots, ans \in Answers : AnswerEditDescription(h, ans)
    \/ StartRenameGroup
    \/ \E h \in Slots, ans \in Answers : AnswerRenameGroup(h, ans)
    \/ StartDeleteNode
    \/ StartMoveUp
    \/ StartMoveDown
    \/ HandleDrop
    \/ StartImportData
    \/ \E h \in Slots, picked \in BOOLEAN : AnswerOpenDialog(h, picked)
    \/ \E h \in Slots, doc \in ImportDocs : ReadDone(h, doc)
    \/ \E h \in Slots : SaveOk(h)
    \/ \E h \in Slots : SaveFail(h)

Spec == Init /\ [][Next]_vars

(***************************************************************************)
(* The forest functions on their own: moveNode and deleteNode of           *)
(* StorageService and the forest computation of handleDrop, applied to a   *)
(* forest over and over.  Persistence plays no part here; the handlers     *)
(* that persist are the actions of Spec.                                   *)
(***************************************************************************)
\* A forest with groups nested two deep, a group with a single child and
\* two root members; the calls below reach every arrangement of its nodes.
StoreForests ==
    { << CommandGroup(1, "a", << CommandGroup(2, "a", << CommandItem(3, "a", "a", "d") >>) >>),
         CommandItem(4, "a", "a", Undef) >> }

\* The ids a call is made with: those of the forests and one no node has.
StoreIds ==
    LET used == UNION {IdSet(f) : f \in StoreForests}
    IN  used \cup {(CHOOSE m \in used : \A k \in used : k <= m) + 1}

Positions == {"before", "after", "inside"}

StoreInit ==
    /\ durable \in StoreForests
    /\ data = durable
    /\ writes = <<>>
    /\ inflight = [h \in Slots |-> Idle]
    /\ nextId = FirstNewId
    /\ started = 0
    /\ file = NoFile
    /\ terminal = NoTerminal
    /\ last = [act |-> "initialize", op |-> "initialize", id |-> 0, tgt |-> 0,
               arg |-> NoField, before |-> durable, durBefore |-> durable,
               saved |-> FALSE, refresh |-> TRUE, msg |-> "none",
               fin |-> TRUE, saves |-> 0, refreshes |-> 1]

\* A function of the forest is applied and its result becomes the forest.
Call(op, id, tgt, arg, result) ==
    /\ data' = result
    /\ last' = Obs("call", op, id, tgt, arg, FALSE, FALSE, "none", FALSE, 0, 0)
    /\ UNCHANGED <<durable, writes, inflight, nextId, started, file, terminal>>

MoveNodeCall ==
    \E sourceId \in StoreIds, targetId \in StoreIds, position \in Positions :
        Call("moveNode", sourceId, targetId, position,
             moveNode(data, sourceId, targetId, position))

DeleteNodeCall ==
    \E id \in StoreIds : Call("deleteNode", id, 0, NoField, deleteNode(data, id))

DropNodeCall ==
    \E sourceNode \in Elements, target \in ElementsOrNone :
        Call("dropNode", sourceNode.id, target.id, NoField,
             dropNode(data, sourceNode, target))

\* The provider's moveUp / moveDown on any id; the argument recorded tells
\* whether the branch that swaps (and then saves and refreshes) was taken.
MoveUpCall ==
    \E id \in StoreIds :
        Call("moveUp", id, 0, IF moveUp(data, id).swapped THEN "swapped" ELSE "kept",
             moveUp(data, id).nodes)

MoveDownCall ==
    \E id \in StoreIds :
        Call("moveDown", id, 0, IF moveDown(data, id).swapped THEN "swapped" ELSE "kept",
             moveDown(data, id).nodes)

\* findParent(this.data, id) as getParent, moveUp and moveDown call it, with
\* the default for `parent`; the call records what came back: null or a
\* group, and the id of that group.
FindParentCall ==
    \E id \in StoreIds :
        LET found == findParent(data, id, Null)
        IN  Call("findParent", id, found.id,
                 IF found = Null THEN "null" ELSE "group", data)

StoreNext ==
    \/ MoveNodeCall
    \/ DeleteNodeCall
    \/ DropNodeCall
    \/ MoveUpCall
    \/ MoveDownCall
    \/ FindParentCall

StoreSpec == StoreInit /\ [][StoreNext]_vars

(***************************************************************************)
(* Properties                                                              *)
(***************************************************************************)
\* The node a call or handler was aimed at, as it was before the step.
SourceBefore == findNodeById(last.before, last.id)

TargetBefore == findNodeById(last.before, last.tgt)

\* A sequence of ids with `new` put right after `at`.
RECURSIVE InsertAfter(_, _, _)
InsertAfter(ids, at, new) ==
    IF ids = <<>> THEN <<>>
    ELSE IF Head(ids) = at THEN <<at, new>> \o Tail(ids)
         ELSE <<Head(ids)>> \o InsertAfter(Tail(ids), at, new)

\* A node without what hangs below it.
Fields(node) == [node EXCEPT !.children = <<>>]

\* C1: after any sequence of moveNode calls (any source id, target id and
\* position) and drops (no target, a group, a non-group), started from a
\* forest with unique ids, no id occurs twice anywhere in the forest.
C1_IdsStayUnique == UniqueIds(data)

\* C1 witness: a nested node has just been moved in front of another one and
\* all four nodes are still there.
C1_Witness ==
    /\ last.op = "moveNode" /\ last.arg = "before"
    /\ ParentIdOf(last.before, last.id) # Root
    /\ data # last.before
    /\ Len(IdList(data)) = Len(IdList(last.before))
    /\ Len(IdList(data)) > 3

\* C2 (as stated): moveNode of a group onto a node inside its own subtree
\* returns the forest it was given.
C2_MoveIntoOwnSubtreeIsNoOp ==
    ( /\ last.op = "moveNode"
      /\ SourceBefore # Null /\ isCommandGroup(SourceBefore)
      /\ last.tgt \in IdSet(SourceBefore.children) )
    => data = last.before

\* C3 (as stated): a drop of a node that is in the forest, and a moveNode whose
\* source is in the forest, leave the set of ids of the forest as it was.
C3_MovesKeepEveryNode ==
    ( /\ last.op \in {"handleDrop", "dropNode", "moveNode"}
      /\ last.act \in {"start", "call"}
      /\ last.id \in IdSet(last.before) )
    => IdSet(data) = IdSet(last.before)

\* The case of C4: moveNode(F, c, g, "after") with g a group of the root
\* sequence whose only child is c.
C4_Case ==
    /\ last.op = "moveNode" /\ last.arg = "after"
    /\ \E i \in 1..Len(last.before) : last.before[i].id = last.tgt
    /\ isCommandGroup(TargetBefore)
    /\ ChildIds(TargetBefore.children) = <<last.id>>

\* C4 (as stated): c is still the only child of g and the root sequence is
\* unchanged.
C4_OnlyChildStays ==
    C4_Case =>
        /\ ChildIds(findNodeById(data, last.tgt).children) = <<last.id>>
        /\ ChildIds(data) = ChildIds(last.before)

\* C4 (amended): c leaves g and becomes the member of the root sequence right
\* after g; g is left without children, c keeps its fields and subtree and the
\* other root members keep their places.
C4_OnlyChildMovesBehindGroup ==
    C4_Case =>
        /\ findNodeById(data, last.tgt).children = <<>>
        /\ ChildIds(data) = InsertAfter(ChildIds(last.before), last.tgt, last.id)
        /\ findNodeById(data, last.id) = SourceBefore
        /\ \A i \in 1..Len(last.before) :
               last.before[i].id # last.tgt =>
                   \E j \in 1..Len(data) : data[j] = last.before[i]

\* C4 witness: the case has happened in a root sequence with further members.
C4_Witness == C4_Case /\ Len(last.before) > 1 /\ Len(data) > 2

\* C5: deleteNode(F, id) for an id of F removes the node and everything below
\* it and nothing else: the removed ids are not found any more, every other
\* node is still there with its fields, under the same parent, and every
\* sequence keeps the order of the members it has left.
C5_DeleteRemovesSubtreeOnly ==
    (last.op = "deleteNode" /\ last.act = "call" /\ SourceBefore # Null) =>
        LET gone == SubtreeIds(SourceBefore)
        IN  /\ \A x \in gone : findNodeById(data, x) = Null
            /\ IdSet(data) = IdSet(last.before) \ gone
            /\ UniqueIds(data)
            /\ \A x \in IdSet(data) :
                   /\ ParentIdOf(data, x) = ParentIdOf(last.before, x)
                   /\ Fields(findNodeById(data, x)) = Fields(findNodeById(last.before, x))
            /\ \A p \in {Root} \cup {g.id : g \in {n \in AllNodes(data) : isCommandGroup(n)}} :
                   ChildIds(MembersOf(data, p)) =
                       Without(ChildIds(MembersOf(last.before, p)), gone)

\* C5 witness: a nested group with a child has been deleted and nodes remain.
C5_Witness ==
    /\ last.op = "deleteNode" /\ last.act = "call"
    /\ SourceBefore # Null /\ isCommandGroup(SourceBefore)
    /\ SourceBefore.children # <<>>
    /\ ParentIdOf(last.before, last.id) # Root
    /\ Len(IdList(data)) > 1

\* The handlers that end in a call of the provider's addCommand, addGroup,
\* deleteNode, updateNode (editCommand, renameGroup), importData or handleDrop.
ProviderOps ==
    {"addCommand", "addGroup", "deleteNode", "editCommand", "renameGroup",
     "importData", "handleDrop"}

PendingWritesOf(h) == {i \in 1..Len(writes) : writes[i].h = h}

MutatorRefresh == last.refresh /\ last.act = "saveOk"

\* C7 (as stated): at every refresh of a mutating operation the durable copy
\* equals the in-memory forest, under every interleaving of the handlers.
C7_RefreshSeesDurableCopy == MutatorRefresh => durable = data

\* C7 (amended): at every refresh of a mutating operation the in-memory forest
\* is the one handed to the latest save; it equals the durable copy when no
\* save of another operation is pending at that moment.
C7_RefreshSeesLatestSave ==
    MutatorRefresh =>
        IF writes = <<>> THEN durable = data
        ELSE writes[Len(writes)].snap = data

\* C7 witness: an operation refreshes while another one, started after it,
\* has changed the forest and is still waiting for its save.
C7_Witness ==
    /\ MutatorRefresh
    /\ \E h \in Slots : inflight[h].pc = "saving"
    /\ durable # data

\* C8 (as stated): in addCommand, addGroup, editCommand and renameGroup a
\* prompt that is dismissed or answered with the empty string ends the
\* operation: forest unchanged, no save, no refresh.
C8_DismissedPromptAborts ==
    ( /\ last.act = "answer"
      /\ last.op \in {"addCommand", "addGroup", "editCommand", "renameGroup"}
      /\ Falsy(last.arg) )
    => /\ data = last.before
       /\ ~last.saved
       /\ ~last.refresh
       /\ last.fin

\* C9 (as stated): a rejected save of a mutating operation is caught and shown
\* as an error message, and the forest keeps the mutation (the durable copy
\* keeps what it had).
C9_SaveFailureIsSurfaced ==
    last.act = "saveFail" =>
        /\ last.msg = "error"
        /\ data = last.before
        /\ durable = last.durBefore

\* C10: an import whose document has no `commands`, or one that is not an
\* array, shows an error message and leaves the forest and the durable copy
\* as they were, with no save and no refresh.
C10_BadImportIsRejected ==
    (last.op = "importData" /\ last.act = "read" /\ last.arg \in {"missing", "nonArray"}) =>
        /\ last.msg = "error"
        /\ data = last.before
        /\ durable = last.durBefore
        /\ ~last.saved
        /\ ~last.refresh
        /\ last.fin

\* C10 witness: {"commands": "not-an-array"} has been read while the forest
\* held nodes.
C10_Witness ==
    /\ last.op = "importData" /\ last.act = "read" /\ last.arg = "nonArray"
    /\ data # <<>>

(***************************************************************************)
(* commands.ts: exportData, and importData reading the exported document   *)
(***************************************************************************)
\* One token of a JSON text: punctuation, a property name that is followed
\* by an array, or a property with a scalar value.
Token(t, k, v) == [t |-> t, k |-> k, v |-> v]

Punct(t) == Token(t, "", "")

\* The scalar properties of a node in the order the objects are built with.
ScalarKeys == << "id", "type", "label", "command", "description" >>

\* JSON.stringify leaves out a property whose value is undefined.
RECURSIVE stringifyProps(_, _)
stringifyProps(node, keys) ==
    IF keys = <<>> THEN <<>>
    ELSE LET k == Head(keys)
         IN  (IF k # "id" /\ node[k] \in {NoField, Undef} THEN <<>>
              ELSE << Token("prop", k, node[k]) >>)
             \o stringifyProps(node, Tail(keys))

\* Mutant: the children of a group are not written.
RECURSIVE stringifyArrayFlat(_)
stringifyArrayFlat(nodes) ==
    IF nodes = <<>> THEN <<>>
    ELSE << Punct("{") >> \o stringifyProps(Head(nodes), ScalarKeys)
         \o (IF isCommandGroup(Head(nodes))
             THEN << Token("key", "children", ""), Punct("["), Punct("]") >>
             ELSE <<>>)
         \o << Punct("}") >> \o stringifyArrayFlat(Tail(nodes))

\* The elements of an array of nodes, each an object; a group carries its
\* children as a nested array.
RECURSIVE stringifyArray(_)
stringifyArray(nodes) ==
    IF nodes = <<>> THEN <<>>
    ELSE << Punct("{") >> \o stringifyProps(Head(nodes), ScalarKeys)
         \o (IF isCommandGroup(Head(nodes))
             THEN << Token("key", "children", ""), Punct("[") >>
                  \o stringifyArray(Head(nodes).children) \o << Punct("]") >>
             ELSE <<>>)
         \o << Punct("}") >> \o stringifyArray(Tail(nodes))

\* JSON.stringify({ commands: data }, null, 2)
JSONstringify(nodes) ==
    << Punct("{"), Token("key", "commands", ""), Punct("[") >>
    \o stringifyArray(nodes) \o << Punct("]"), Punct("}") >>

\* An object no property has been read into yet.
EmptyObject == [Null EXCEPT !.type = NoField]

\* JSON.parse on the arrays and objects of such a text: position i is just
\* behind an opening bracket or behind the previous element / property.
RECURSIVE parseArray(_, _, _)
RECURSIVE parseObject(_, _, _)
parseArray(text, i, acc) ==
    IF text[i].t = "]" THEN [value |-> acc, next |-> i + 1]
    ELSE LET element == parseObject(text, i + 1, EmptyObject)
         IN  parseArray(text, element.next, Append(acc, element.value))

parseObject(text, i, obj) ==
    IF text[i].t = "}" THEN [value |-> obj, next |-> i + 1]
    ELSE IF text[i].t = "prop"
         THEN parseObject(text, i + 1, [obj EXCEPT ![text[i].k] = text[i].v])
         ELSE LET array == parseArray(text, i + 2, <<>>)
              IN  parseObject(text, array.next, [obj EXCEPT ![text[i].k] = array.value])

\* readFile and JSON.parse on the exported file: the read rejects when there
\* is no such file, else the text parses to an object whose `commands` is
\* the array that was written.
readExported(document) ==
    IF document.text = <<>>
    THEN [read |-> "rejects", commands |-> JsValue(FALSE, FALSE, <<>>)]
    ELSE [read |-> "object",
          commands |-> JsValue(TRUE, TRUE, parseArray(document.text, 4, <<>>).value)]

StartExportData ==
    /\ CanStart
    /\ started' = started + 1
    /\ UNCHANGED <<file, terminal>>
    /\ Prompt(FreeSlot, "start", "exportData", "dialog", 0, NoField, NoField, NoField)

\* showSaveDialog resolves.  With a uri the try block runs up to writeFile:
\* the text is made from the forest as it is now, and the write either lands
\* or fails; the handler learns which when the write settles.
AnswerSaveDialog(h, picked, lands) ==
    /\ inflight[h].op = "exportData" /\ inflight[h].pc = "dialog"
    /\ UNCHANGED <<started, terminal>>
    /\ IF ~picked
       THEN /\ UNCHANGED file
            /\ Return(h, "answer", "exportData", 0, Undef, "none")
       ELSE /\ file' = IF lands
                       THEN [text |-> JSONstringify(data), exported |-> data]
                       ELSE file
            /\ Prompt(h, "answer", "exportData", "writing", 0,
                      IF lands THEN "landed" ELSE "failed", NoField, "picked")

\* writeFile settles: the information message, or the catch block's error.
WriteDone(h) ==
    /\ inflight[h].op = "exportData" /\ inflight[h].pc = "writing"
    /\ UNCHANGED <<started, file, terminal>>
    /\ Return(h, "written", "exportData", 0, inflight[h].a1,
              IF inflight[h].a1 = "landed" THEN "info" ELSE "error")

\* importData's readFile settles on the exported file.
ReadExported(h) ==
    /\ file.text # <<>>
    /\ ReadDone(h, readExported(file))

(***************************************************************************)
(* Export and import: documents exported in this or an earlier session are *)
(* imported into forests that other handlers changed in between.           *)
(***************************************************************************)
PortInit ==
    /\ durable \in StoredForests
    /\ data = durable
    /\ writes = <<>>
    /\ inflight = [h \in Slots |-> Idle]
    /\ nextId = FirstNewId
    /\ started = 0
    /\ file \in {NoFile} \cup
                { [text |-> JSONstringify(f), exported |-> f] : f \in StoredForests }
    /\ terminal = NoTerminal
    /\ last = [act |-> "initialize", op |-> "initialize", id |-> 0, tgt |-> 0,
               arg |-> NoField, before |-> durable, durBefore |-> durable,
               saved |-> FALSE, refresh |-> TRUE, msg |-> "none",
               fin |-> TRUE, saves |-> 0, refreshes |-> 1]

PortNext ==
    \/ StartExportData
    \/ \E h \in Slots, picked \in BOOLEAN, lands \in BOOLEAN : AnswerSaveDialog(h, picked, lands)
    \/ \E h \in Slots : WriteDone(h)
    \/ StartImportData
    \/ \E h \in Slots, picked \in BOOLEAN : AnswerOpenDialog(h, picked)
    \/ \E h \in Slots : ReadExported(h)
    \/ StartDeleteNode
    \/ StartAddCommand
    \/ \E h \in Slots, ans \in Answers : AnswerAddCommand(h, ans)
    \/ \E h \in Slots : SaveOk(h)
    \/ \E h \in Slots : SaveFail(h)

PortSpec == PortInit /\ [][PortNext]_vars

\* What reading the properties of the nodes yields: an absent property reads
\* as undefined, like one that holds undefined.
RECURSIVE AsRead(_)
AsRead(nodes) ==
    IF nodes = <<>> THEN <<>>
    ELSE LET node == Head(nodes)
         IN  << [node EXCEPT !.command = IF @ = Undef THEN NoField ELSE @,
                             !.description = IF @ = Undef THEN NoField ELSE @,
                             !.children = AsRead(@)] >>
             \o AsRead(Tail(nodes))

\* The step in which importData took over the array of the exported file.
ImportedExport == last.act = "read" /\ last.op = "importData" /\ last.arg = "array"

\* C11: when importData has read the document exportData wrote, the forest
\* is the forest that was exported: the same nodes with the same ids, the
\* same nesting and the same sibling order (and every property reads as it
\* did), whatever the forest held before the import; nothing of the previous
\* forest is left.
C11_ExportThenImportRestores ==
    ImportedExport => AsRead(data) = AsRead(file.exported)

\* C11: an exported forest with a nested node and an undefined description
\* was imported over a forest that held a different set of nodes.
C11_Witness ==
    /\ ImportedExport
    /\ IdSet(last.before) # IdSet(file.exported)
    /\ last.before # <<>>
    /\ \E node \in AllNodes(file.exported) : node.children # <<>>
    /\ \E node \in AllNodes(file.exported) : node.description = Undef

\* The groups of a forest and the root: the names of its sequences.
SequencesOf(nodes) == {Root} \cup {g.id : g \in {n \in AllNodes(nodes) : isCommandGroup(n)}}

\* The position of `id` among the ids `ids` (0: not there).
PositionIn(ids, id) ==
    IF \E i \in 1..Len(ids) : ids[i] = id
    THEN CHOOSE i \in 1..Len(ids) : ids[i] = id
    ELSE 0

\* The forest `after` is the forest `before` with the members at positions
\* i and j of the sequence `pid` exchanged and nothing else changed.
ExchangedIn(before, after, pid, i, j) ==
    /\ Len(IdList(after)) = Len(IdList(before))
    /\ IdSet(after) = IdSet(before)
    /\ \A x \in IdSet(before) :
           /\ ParentIdOf(after, x) = ParentIdOf(before, x)
           /\ Fields(findNodeById(after, x)) = Fields(findNodeById(before, x))
    /\ \A p \in SequencesOf(before) \ {pid} :
           ChildIds(MembersOf(after, p)) = ChildIds(MembersOf(before, p))
    /\ LET was == ChildIds(MembersOf(before, pid))
           now == ChildIds(MembersOf(after, pid))
       IN  /\ Len(now) = Len(was)
           /\ \A k \in 1..Len(was) :
                  now[k] = IF k = i THEN was[j] ELSE IF k = j THEN was[i] ELSE was[k]

\* C12: moveUp(id) exchanges the node with the member right before it and
\* moveDown(id) with the member right after it, in the sequence that holds
\* the node (root or the children of a group at any depth); every other node
\* keeps its parent and its place; when the node is first (moveUp), last
\* (moveDown) or no node has the id, the forest stays as it was.
C12_MoveSwapsWithNeighbour ==
    (last.act = "call" /\ last.op \in {"moveUp", "moveDown"}) =>
        LET pid == ParentIdOf(last.before, last.id)
            ids == IF pid = -1 THEN <<>> ELSE ChildIds(MembersOf(last.before, pid))
            at == PositionIn(ids, last.id)
            to == IF last.op = "moveUp" THEN at - 1 ELSE at + 1
        IN  IF at >= 1 /\ to >= 1 /\ to <= Len(ids)
            THEN ExchangedIn(last.before, data, pid, at, to)
            ELSE data = last.before

\* C12 witness: a node two groups deep has been moved up past its neighbour.
C12_Witness ==
    /\ last.act = "call" /\ last.op = "moveUp" /\ data # last.before
    /\ ParentIdOf(last.before, last.id) # Root
    /\ ParentIdOf(last.before, ParentIdOf(last.before, last.id)) # Root

\* The position of the node the latest call named, among its siblings in the
\* forest the call was made on, and the number of those siblings.
PlaceBefore ==
    LET pid == ParentIdOf(last.before, last.id)
    IN  IF pid = -1 THEN [at |-> 0, of |-> 0]
        ELSE [at |-> PositionIn(ChildIds(MembersOf(last.before, pid)), last.id),
              of |-> Len(MembersOf(last.before, pid))]

\* C13: after moveUp(id) on a node that was not first among its siblings,
\* moveDown(id) gives back the forest as it was before the moveUp; after
\* moveDown(id) on a node that was not last, moveUp(id) gives it back.
C13_MoveUpAndMoveDownUndoEachOther ==
    /\ (last.act = "call" /\ last.op = "moveUp" /\ PlaceBefore.at > 1) =>
           moveDown(data, last.id) = [swapped |-> TRUE, nodes |-> last.before]
    /\ (last.act = "call" /\ last.op = "moveDown"
            /\ PlaceBefore.at >= 1 /\ PlaceBefore.at < PlaceBefore.of) =>
           moveUp(data, last.id) = [swapped |-> TRUE, nodes |-> last.before]

\* C13 witness: moveDown was applied to the first of three or more siblings,
\* so the node now sits between two others.
C13_Witness ==
    /\ last.act = "call" /\ last.op = "moveDown"
    /\ PlaceBefore.at = 1 /\ PlaceBefore.of >= 3
    /\ data # last.before

\* The latest step started the moveUp / moveDown handler.
MoveStarted == last.act = "start" /\ last.op \in {"moveUp", "moveDown"}

\* Whether the node that handler was given had a neighbour to swap with.
HadNeighbour ==
    IF last.op = "moveUp" THEN PlaceBefore.at > 1
    ELSE PlaceBefore.at >= 1 /\ PlaceBefore.at < PlaceBefore.of

\* C14: moveUp and moveDown call save exactly when they swapped, and their
\* refresh is the one that follows that save; at a boundary (first for
\* moveUp, last for moveDown) and for an id the forest does not hold the
\* invocation ends at once with the forest as it was, no save and no refresh.
C14_MoveSavesExactlyOnSwap ==
    /\ MoveStarted =>
           /\ HadNeighbour <=> data # last.before
           /\ HadNeighbour <=> last.saved
           /\ HadNeighbour =>
                  /\ ~last.fin /\ ~last.refresh
                  /\ writes # <<>> /\ writes[Len(writes)].snap = data
           /\ ~HadNeighbour =>
                  /\ last.fin /\ ~last.refresh
                  /\ last.saves = 0 /\ last.refreshes = 0
                  /\ \A i \in 1..Len(writes) : inflight[writes[i].h].pc = "saving"
    /\ (last.op \in {"moveUp", "moveDown"} /\ last.refresh) =>
           /\ last.act = "saveOk"
           /\ last.saves = 1 /\ last.refreshes = 1

\* C14 witness: moveDown was invoked on a node the forest no longer holds and
\* ended without save or refresh.
C14_Witness ==
    /\ MoveStarted /\ last.op = "moveDown"
    /\ findNodeById(last.before, last.id) = Null
    /\ last.fin /\ ~last.saved /\ last.before # <<>>

\* The latest step computed the forest of a drop: with no target, onto a
\* node that is not a group.
Dropped == last.act = "call" /\ last.op = "dropNode"

DroppedOnNothing == Dropped /\ last.tgt = Null.id

DroppedOnItem == Dropped /\ last.tgt # Null.id /\ ~isCommandGroup(TargetBefore)

\* Every node but `id` has in `after` the parent and the fields it had in
\* `before`, and `id` has its fields; no node is lost, none occurs twice.
OthersStay(before, after, id) ==
    /\ IdSet(after) = IdSet(before)
    /\ UniqueIds(after)
    /\ \A x \in IdSet(before) :
           /\ x # id => ParentIdOf(after, x) = ParentIdOf(before, x)
           /\ Fields(findNodeById(after, x)) = Fields(findNodeById(before, x))

\* C15: a drop with no target removes the dragged node from the sequence
\* that held it (root or a group at any depth) and makes it the last member
\* of the root sequence; it occurs once; every other node keeps its parent,
\* and every sequence keeps the order of its other members.
C15_DropOnNothingMovesToEndOfRoot ==
    DroppedOnNothing =>
        /\ OthersStay(last.before, data, last.id)
        /\ ParentIdOf(data, last.id) = Root
        /\ ChildIds(data) = Append(Without(ChildIds(last.before), {last.id}), last.id)
        /\ \A p \in SequencesOf(last.before) \ {Root} :
               ChildIds(MembersOf(data, p)) =
                   Without(ChildIds(MembersOf(last.before, p)), {last.id})

\* C15 witness: a group nested in a group, with a child of its own, was
\* dropped on the empty area.
C15_Witness ==
    /\ DroppedOnNothing
    /\ isCommandGroup(SourceBefore) /\ SourceBefore.children # <<>>
    /\ ParentIdOf(last.before, last.id) # Root
    /\ Len(last.before) >= 2

\* The dragged node sits right behind the target in the target's sequence,
\* and every sequence has its other members in the order they had.
PlacedAfterTarget(before, after, id, tgt) ==
    LET holder == ParentIdOf(before, tgt)
    IN  /\ OthersStay(before, after, id)
        /\ ParentIdOf(after, id) = holder
        /\ \A p \in SequencesOf(before) :
               p \in IdSet(after) \cup {Root} =>
                   ChildIds(MembersOf(after, p)) =
                       IF p = holder
                       THEN InsertAfter(Without(ChildIds(MembersOf(before, p)), {id}), tgt, id)
                       ELSE Without(ChildIds(MembersOf(before, p)), {id})

\* C16 (as stated): a drop onto a node T that is not a group puts the
\* dragged node right behind T in the sequence that holds T, at any depth,
\* takes it out of its former place and leaves the order of all other nodes
\* as it was, for every non-group T of the forest.
C16_DropOnItemPlacesAfterTarget ==
    DroppedOnItem => PlacedAfterTarget(last.before, data, last.id, last.tgt)

\* The node `id` of `before` is in `after` the last child of `group`, and
\* every sequence has its other members in the order they had.
PlacedLastIn(before, after, id, group) ==
    /\ OthersStay(before, after, id)
    /\ ParentIdOf(after, id) = group
    /\ \A p \in SequencesOf(before) :
           p \in IdSet(after) \cup {Root} =>
               ChildIds(MembersOf(after, p)) =
                   IF p = group
                   THEN Append(Without(ChildIds(MembersOf(before, p)), {id}), id)
                   ELSE Without(ChildIds(MembersOf(before, p)), {id})

\* The node `new`, which `before` does not hold, is in `after` the last child
\* of `group`, and nothing else differs.
AddedLastIn(before, after, new, group) ==
    /\ new \notin IdSet(before)
    /\ IdSet(after) = IdSet(before) \cup {new}
    /\ UniqueIds(after)
    /\ ParentIdOf(after, new) = group
    /\ \A x \in IdSet(before) :
           /\ ParentIdOf(after, x) = ParentIdOf(before, x)
           /\ Fields(findNodeById(after, x)) = Fields(findNodeById(before, x))
    /\ \A p \in SequencesOf(before) :
           ChildIds(MembersOf(after, p)) =
               IF p = group
               THEN Append(ChildIds(MembersOf(before, p)), new)
               ELSE ChildIds(MembersOf(before, p))

\* The latest step was addCommand / addGroup calling the provider with a
\* parentId, or handleDrop with a group as its target.
AddedWithParent ==
    /\ last.act = "answer" /\ last.op \in {"addCommand", "addGroup"}
    /\ last.saved /\ last.id # NoParent

DropOnGroup ==
    /\ last.act = "start" /\ last.op = "handleDrop"
    /\ last.tgt # Null.id /\ isCommandGroup(TargetBefore)

\* C17 (as stated): an add with a parentId and a drop onto a group make the
\* node the last child of the group with that id, at root or nested, the
\* group's other children keeping their order; when the id is not that of a
\* group of the forest, the forest stays as it was.
C17_InsertIntoGroupAppends ==
    /\ AddedWithParent =>
           IF isCommandGroup(findNodeById(last.before, last.id))
           THEN AddedLastIn(last.before, data, nextId - 1, last.id)
           ELSE data = last.before
    /\ DropOnGroup => PlacedLastIn(last.before, data, last.id, last.tgt)

\* The latest step was deleteNode taking a group with children out of the
\* forest.
DeletedGroupWithChildren ==
    /\ last.op = "deleteNode" /\ last.saved
    /\ isCommandGroup(SourceBefore) /\ SourceBefore.children # <<>>
    /\ findNodeById(data, last.id) = Null

\* C18 (as stated): a group with children is removed by the delete
\* operation only in a step that resumes the handler from a confirmation
\* the user has answered with yes, never in the step the handler is started
\* in; after a declined confirmation the forest is as it was.
C18_DeleteOfGroupIsConfirmed ==
    /\ DeletedGroupWithChildren => (last.act = "answer" /\ last.arg = "confirmed")
    /\ (last.op = "deleteNode" /\ last.act = "answer" /\ last.arg # "confirmed") =>
           data = last.before

(***************************************************************************)
(* commands.ts: executeCommand and copyCommand                             *)
(***************************************************************************)
\* Mutant: a terminal is created only when none is held.
needsTerminalIfNone(held) == held = NoTerminal

\* !this.terminal || this.terminal.exitStatus !== undefined
needsTerminal(held) == held = NoTerminal \/ held.exited

\* executeCommand has no await: the whole handler is one step.  The step
\* records which terminal sendText was called on and the state that one was
\* in.
ExecuteCommand ==
    \E node \in Elements :
        /\ started < MaxOps
        /\ started' = started + 1
        /\ UNCHANGED <<data, durable, writes, inflight, nextId, file>>
        /\ IF ~isCommandItem(node)
           THEN /\ UNCHANGED terminal
                /\ last' = Obs("start", "executeCommand", node.id, 0, NoField,
                               FALSE, FALSE, "warning", TRUE, 0, 0)
           ELSE LET used == IF needsTerminal(terminal)
                            THEN [held |-> terminal.held + 1, exited |-> FALSE]
                            ELSE terminal
                IN  /\ terminal' = used
                    /\ last' = Obs("start", "executeCommand", node.id, used.held,
                                   IF used.exited THEN "exited" ELSE "live",
                                   FALSE, FALSE, "info", TRUE, 0, 0)

\* The held terminal is closed or its shell exits: its exitStatus is set.
TerminalExit ==
    /\ terminal # NoTerminal /\ ~terminal.exited
    /\ terminal' = [terminal EXCEPT !.exited = TRUE]
    /\ last' = Obs("exit", "terminal", 0, terminal.held, NoField,
                   FALSE, FALSE, "none", FALSE, 0, 0)
    /\ UNCHANGED <<data, durable, writes, inflight, nextId, started, file>>

\* Mutant: copyCommand without its type check.
StartCopyCommandUnchecked ==
    \E node \in Elements :
        /\ CanStart
        /\ started' = started + 1
        /\ UNCHANGED <<file, terminal>>
        /\ inflight' = [inflight EXCEPT ![FreeSlot] =
                           Handler("copyCommand", "copying", node.id, NoField, NoField, 0)]
        /\ last' = Obs("start", "copyCommand", node.id, 0, NoField,
                       FALSE, FALSE, "none", FALSE, 0, 0)
        /\ UNCHANGED <<data, durable, writes, nextId>>

\* copyCommand: the warning, or the await on clipboard.writeText.
StartCopyCommand ==
    \E node \in Elements :
        /\ CanStart
        /\ started' = started + 1
        /\ UNCHANGED <<file, terminal>>
        /\ IF ~isCommandItem(node)
           THEN Return(FreeSlot, "start", "copyCommand", node.id, NoField, "warning")
           ELSE /\ inflight' = [inflight EXCEPT ![FreeSlot] =
                                   Handler("copyCommand", "copying", node.id,
                                           NoField, NoField, 0)]
                /\ last' = Obs("start", "copyCommand", node.id, 0, NoField,
                               FALSE, FALSE, "none", FALSE, 0, 0)
                /\ UNCHANGED <<data, durable, writes, nextId>>

\* The clipboard write settles: the information message, or a rejection
\* nothing catches.
CopyDone(h, written) ==
    /\ inflight[h].op = "copyCommand" /\ inflight[h].pc = "copying"
    /\ UNCHANGED <<started, file, terminal>>
    /\ Return(h, "copied", "copyCommand", inflight[h].id, NoField,
              IF written THEN "info" ELSE "unhandled")

(***************************************************************************)
(* Using the commands: execute, copy, edit and rename, with the held        *)
(* terminal exiting at any time.                                           *)
(***************************************************************************)
RunNext ==
    \/ ExecuteCommand
    \/ TerminalExit
    \/ StartCopyCommand
    \/ \E h \in Slots, written \in BOOLEAN : CopyDone(h, written)
    \/ StartEditCommand
    \/ \E h \in Slots, ans \in Answers : AnswerEditLabel(h, ans)
    \/ \E h \in Slots, ans \in Answers : AnswerEditCommand(h, ans)
    \/ \E h \in Slots, ans \in Answers : AnswerEditDescription(h, ans)
    \/ StartRenameGroup
    \/ \E h \in Slots, ans \in Answers : AnswerRenameGroup(h, ans)
    \/ \E h \in Slots : SaveOk(h)
    \/ \E h \in Slots : SaveFail(h)

RunSpec == Init /\ [][RunNext]_vars

\* The latest step was executeCommand on a command item / on a group.
Executed == last.act = "start" /\ last.op = "executeCommand"

\* C19: executeCommand on a command item creates a terminal exactly when it
\* holds none or the held one has exited; otherwise it keeps the held one;
\* either way the text goes to the terminal it then holds, which has not
\* exited.  executeCommand on a group leaves the terminal alone and sends
\* nothing.
C19_TerminalIsReusedWhileAlive ==
    [][ Executed' =>
            LET node == findNodeById(data, last'.id)
                none == terminal.held = 0 \/ terminal.exited
            IN  IF isCommandItem(node)
                THEN /\ none => (terminal'.held = terminal.held + 1 /\ ~terminal'.exited)
                     /\ ~none => terminal' = terminal
                     /\ last'.tgt = terminal'.held
                     /\ last'.arg = "live"
                ELSE /\ terminal' = terminal
                     /\ last'.tgt = 0 /\ last'.arg = NoField
                     /\ last'.msg = "warning"
      ]_vars

\* C19 witness: a command was executed in a second terminal, created because
\* the first one had exited.
C19_Witness ==
    /\ Executed /\ last.msg = "info"
    /\ terminal.held > 1 /\ last.tgt = terminal.held /\ ~terminal.exited

\* The latest step started execute, copy or edit on a group, or rename on a
\* command item.
Misused ==
    /\ last.act = "start"
    /\ \/ /\ last.op \in {"executeCommand", "copyCommand", "editCommand"}
          /\ isCommandGroup(SourceBefore)
       \/ /\ last.op = "renameGroup"
          /\ isCommandItem(SourceBefore)

\* C20: execute, copy and edit on a group and rename on a command item show
\* a warning and end there: the forest is as it was, the invocation is not
\* suspended at any prompt (or anywhere else), it has issued no save and
\* fired no refresh, and nothing was sent to a terminal.
C20_MisuseIsRejectedWithWarning ==
    Misused =>
        /\ last.msg = "warning"
        /\ data = last.before /\ durable = last.durBefore
        /\ last.fin /\ ~last.saved /\ ~last.refresh
        /\ last.saves = 0 /\ last.refreshes = 0
        /\ last.tgt = 0
        /\ \A h \in Slots : inflight[h].op = last.op => inflight[h].id # last.id
        /\ \A i \in 1..Len(writes) : inflight[writes[i].h].pc = "saving"

\* C20 witness: rename was invoked on a command item nested in a group while
\* another handler was suspended.
C20_Witness ==
    /\ Misused /\ last.op = "renameGroup"
    /\ ParentIdOf(data, last.id) # Root
    /\ ~Quiet

(***************************************************************************)
(* Editing and rearranging: the handlers that neither create nor delete    *)
(* nodes, run on the forest found in storage.                              *)
(***************************************************************************)
EditNext ==
    \/ StartEditCommand
    \/ \E h \in Slots, ans \in Answers : AnswerEditLabel(h, ans)
    \/ \E h \in Slots, ans \in Answers : AnswerEditCommand(h, ans)
    \/ \E h \in Slots, ans \in Answers : AnswerEditDescription(h, ans)
    \/ StartRenameGroup
    \/ \E h \in Slots, ans \in Answers : AnswerRenameGroup(h, ans)
    \/ StartMoveUp
    \/ StartMoveDown
    \/ HandleDrop
    \/ \E h \in Slots : SaveOk(h)
    \/ \E h \in Slots : SaveFail(h)

EditSpec == Init /\ [][EditNext]_vars

\* The operations that rearrange or edit nodes without creating or
\* deleting any.
EditingOps == {"editCommand", "renameGroup", "moveUp", "moveDown", "handleDrop"}

\* The type the node `id` was created with: the one it has in the forest
\* found in storage.
CreatedType(id) ==
    LET origin == CHOOSE f \in StoredForests : id \in IdSet(f)
    IN  findNodeById(origin, id).type

\* C21: after any sequence of edit, rename, moveUp, moveDown and drag-drop
\* every node in the forest has an id it was created with and the type
\* (command or group) the node of that id was created with; no step of
\* these operations brings in an id or changes the type under an id.
C21_IdAndTypeAreKept ==
    /\ \A node \in AllNodes(data) :
           /\ \E f \in StoredForests : node.id \in IdSet(f)
           /\ node.type = CreatedType(node.id)
    /\ last.op \in EditingOps =>
           \A node \in AllNodes(data) :
               /\ node.id \in IdSet(last.before)
               /\ node.type = findNodeById(last.before, node.id).type

\* C21 witness: a group with a child has just been renamed.
C21_Witness ==
    /\ last.op = "renameGroup" /\ last.saved /\ data # last.before
    /\ findNodeById(data, last.id).children # <<>>

\* The latest step called findParent; what the call returned, as recorded.
FindParentCalled == last.act = "call" /\ last.op = "findParent"

Returned == [kind |-> last.arg, id |-> last.tgt]

\* What findParent returns on the same forest for an id no node has.
ReturnedForAbsent ==
    LET absent == CHOOSE id \in StoreIds : id \notin IdSet(data)
        found == findParent(data, absent, Null)
    IN  [kind |-> IF found = Null THEN "null" ELSE "group", id |-> found.id]

\* C22 (as stated): findParent returns the enclosing group for a nested
\* node, a root result for a member of the root sequence and not-found for
\* an absent id, and the root result differs from the not-found result.
C22_RootDiffersFromNotFound ==
    FindParentCalled =>
        /\ ParentIdOf(data, last.id) \notin {Root, -1} =>
               Returned = [kind |-> "group", id |-> ParentIdOf(data, last.id)]
        /\ ParentIdOf(data, last.id) = Root => Returned # ReturnedForAbsent

\* C22 (amended): findParent returns the immediately enclosing group for a
\* nested node, at any depth, and null otherwise: null both for a member of
\* the root sequence and for an id no node has, so these two cases cannot
\* be told apart by the result.
C22_RootAndNotFoundAreBothNull ==
    FindParentCalled =>
        /\ ParentIdOf(data, last.id) \notin {Root, -1} =>
               /\ Returned = [kind |-> "group", id |-> ParentIdOf(data, last.id)]
               /\ isCommandGroup(findNodeById(data, last.tgt))
        /\ ParentIdOf(data, last.id) \in {Root, -1} =>
               Returned = [kind |-> "null", id |-> Null.id]
        /\ ReturnedForAbsent = [kind |-> "null", id |-> Null.id]

\* C22 witness: findParent was asked for a node two groups deep and returned
\* the inner group.
C22_Witness ==
    /\ FindParentCalled /\ last.arg = "group"
    /\ ParentIdOf(data, last.tgt) # Root

(***************************************************************************)
(* The tree functions of StorageService as functions: each behaviour picks *)
(* an input forest and applies one function to it once, with any id.       *)
(***************************************************************************)
\* Input forests: none, one level of nesting, two levels, and a group whose
\* children have siblings on both sides.
InputForests ==
    StoredForests \cup StoreForests \cup
    { << CommandItem(1, "a", "a", Undef),
         CommandGroup(2, "a", << CommandItem(3, "a", "a", "d"),
                                 CommandGroup(4, "a", << CommandItem(5, "a", "a", "d") >>),
                                 CommandItem(6, "a", "a", Undef) >>),
         CommandItem(7, "a", "a", "d") >> }

\* The ids of the input forests and one that none of them has.
InputIds ==
    LET used == UNION {IdSet(f) : f \in InputForests}
    IN  used \cup {(CHOOSE m \in used : \A k \in used : k <= m) + 1}

\* A node that is in none of the input forests, as nodeToInsert.
NodeToInsert ==
    LET used == UNION {IdSet(f) : f \in InputForests}
    IN  CommandItem((CHOOSE m \in used : \A k \in used : k <= m) + 2, "n", "n", Undef)

\* The `updates` arguments: {}, { label } as renameGroup passes it and
\* { label, command, description } as editCommand passes it.
PatchNames == {"empty", "label", "edit"}

Patch(name) ==
    IF name = "empty" THEN [f \in {} |-> NoField]
    ELSE IF name = "label" THEN [label |-> "x"]
    ELSE editPatch("x", "y", Undef)

FnInit ==
    /\ durable \in InputForests
    /\ data = durable
    /\ writes = <<>>
    /\ inflight = [h \in Slots |-> Idle]
    /\ nextId = FirstNewId
    /\ started = 0
    /\ file = NoFile
    /\ terminal = NoTerminal
    /\ last = [act |-> "initialize", op |-> "initialize", id |-> 0, tgt |-> 0,
               arg |-> NoField, before |-> durable, durBefore |-> durable,
               saved |-> FALSE, refresh |-> TRUE, msg |-> "none",
               fin |-> TRUE, saves |-> 0, refreshes |-> 1]

\* The function is applied to the input forest as it was picked.
Fresh == last.act = "initialize"

ApplyDeleteNode ==
    \E id \in InputIds :
        Fresh /\ Call("deleteNode", id, 0, NoField, deleteNode(data, id))

ApplyUpdateNode ==
    \E id \in InputIds, name \in PatchNames :
        Fresh /\ Call("updateNode", id, 0, name, updateNode(data, id, Patch(name)))

ApplyInsertIntoGroup ==
    \E groupId \in InputIds :
        Fresh /\ Call("insertIntoGroup", NodeToInsert.id, groupId, "inside",
                      insertIntoGroup(data, groupId, NodeToInsert))

ApplyInsertNearNode ==
    \E targetId \in InputIds, position \in Positions \ {"inside"} :
        Fresh /\ Call("insertNearNode", NodeToInsert.id, targetId, position,
                      insertNearNode(data, targetId, NodeToInsert, position))

ApplyMoveNode ==
    \E sourceId \in InputIds, targetId \in InputIds, position \in Positions :
        Fresh /\ Call("moveNode", sourceId, targetId, position,
                      moveNode(data, sourceId, targetId, position))

FnNext ==
    \/ ApplyDeleteNode
    \/ ApplyUpdateNode
    \/ ApplyInsertIntoGroup
    \/ ApplyInsertNearNode
    \/ ApplyMoveNode

FnSpec == FnInit /\ [][FnNext]_vars

\* The id a lookup was made with in the latest call: the id of delete and
\* update, the group or target id of the inserts, the source id of moveNode.
LookedUp == IF last.op \in {"insertIntoGroup", "insertNearNode"} THEN last.tgt ELSE last.id

\* C23: deleteNode, updateNode (any patch), insertIntoGroup, insertNearNode
\* (before and after) and moveNode (as source, any target and position),
\* called with an id no node of the forest has, return the forest they were
\* given.
C23_AbsentIdChangesNothing ==
    (last.act = "call" /\ LookedUp \notin IdSet(last.before)) => data = last.before

\* C23 witness: insertNearNode was called on a nested forest with a target
\* id that no node has.
C23_Witness ==
    /\ last.act = "call" /\ last.op = "insertNearNode"
    /\ LookedUp \notin IdSet(last.before)
    /\ \E node \in AllNodes(last.before) : node.children # <<>>

\* The latest step called updateNode; the patch it was called with.
Updated == last.act = "call" /\ last.op = "updateNode"

\* C24: updateNode(F, id, patch) gives the node `id` the values of the patch
\* in the fields the patch names and leaves its other fields and its
\* children as they were; every node is where it was (same parent, same
\* place among the same siblings) and every other node has the fields it
\* had; with the empty patch the result is F, for every id.
C24_UpdateTouchesPatchedFieldsOnly ==
    Updated =>
        LET patch == Patch(last.arg)
        IN  /\ IdList(data) = IdList(last.before)
            /\ \A p \in SequencesOf(last.before) :
                   ChildIds(MembersOf(data, p)) = ChildIds(MembersOf(last.before, p))
            /\ \A x \in IdSet(last.before) :
                   LET was == findNodeById(last.before, x)
                       now == findNodeById(data, x)
                   IN  IF x = last.id
                       THEN /\ \A f \in DOMAIN was :
                                   now[f] = IF f \in DOMAIN patch THEN patch[f] ELSE was[f]
                            /\ now.children = was.children
                       ELSE Fields(now) = Fields(was)
            /\ last.arg = "empty" => data = last.before

\* C24 witness: a group nested in a group, with a child of its own and with
\* siblings before and after it, was given a new label, command and
\* description.
C24_Witness ==
    /\ Updated /\ last.arg = "edit"
    /\ isCommandGroup(SourceBefore) /\ SourceBefore.children # <<>>
    /\ ParentIdOf(last.before, last.id) # Root
    /\ PlaceBefore.at > 1 /\ PlaceBefore.at < PlaceBefore.of
    /\ data # last.before
====
